---- MODULE Spec2Model ----
(***************************************************************************)
(* Model of the pagination-driven crawl-and-persist engines of the         *)
(* Property-Data-Scraper repository:                                       *)
(*   PLP = PropertyListingsPuller.pull_listings                            *)
(*         (src/property_data_puller/property_listings_puller.py)          *)
(*   PPL = PullPropertyListings.pull_listings / pull_listing_categories    *)
(*         (src/data/pull_listings.py)                                     *)
(* The web site, the site adapter's extractors and the operator who stops  *)
(* and restarts the process are the environment: their answers are drawn   *)
(* nondeterministically from small sets.                                   *)
(***************************************************************************)
EXTENDS Integers, Sequences, FiniteSets, TLC

(***************************************************************************)
(* Bounds of the model                                                     *)
(***************************************************************************)
\* the site serves no listings on pages beyond MaxPage
MaxPage == 2
\* listings on one listing page
MaxListings == 2
\* non-nominal answers of the environment in one behaviour
MaxAnomalies == 1
\* failed attempts after which the detail page of a listing can still be
\* obtained; a page that failed more often fails on every later attempt
MaxTransient == 1

(***************************************************************************)
(* Program constants                                                       *)
(***************************************************************************)
\* (variant) one attempt more
max_attempts_plus_one == 20 + 1
max_attempts == 20

\* canonical column list declared by the site adapter (two data fields)
data_columns == <<"title", "price">>
\* a field that no canonical column list declares
ExtraField == "floor_plan"
\* categories configured for PullPropertyListings (label order of the call)
categories == <<"apartments", "houses">>
\* labels of the listing_categories mapping of the adapter
listing_categories == {"apartments", "houses"}
\* a categories argument with a label that is not configured
UnknownRequest == <<"apartments", "garages">>

(***************************************************************************)
(* Scalar values.  Every cell, URL and local that may be unbound is a      *)
(* record of the same shape: k = kind, h = host or label, p/i = the page   *)
(* and index of the listing the value was extracted from.                  *)
(***************************************************************************)
Val(k, h, p, i) == [k |-> k, h |-> h, p |-> p, i |-> i]
NaN == Val("nan", "", 0, 0)
None == Val("none", "", 0, 0)
Unbound == Val("unbound", "", 0, 0)
EmptyStr == Val("url", "", 0, 0)
PageVal(p) == Val("page", "", p, 0)
CatVal(c) == Val("cat", c, 0, 0)
PreviewVal(p, i) == Val("pv", "", p, i)
DetailVal(p, i) == Val("dt", "", p, i)
\* URL strings: h = "" for a candidate without host component
RelUrl(p, i) == Val("url", "", p, i)
AbsUrl(h, p, i) == Val("url", h, p, i)
root_host == "www.site.test"
other_host == "www.other.test"
\* the root's host as a page may spell it
root_host_upper == "WWW.SITE.TEST"
\* relative candidates that do not begin with '/': '@www.other.test/x'
\* (k = "url_at") and 'listing/x' (k = "url_bare")
AtUrl(p, i) == Val("url_at", "", p, i)
BareUrl(p, i) == Val("url_bare", "", p, i)
\* host of the root URL followed by 'listing/x'
joined_host == "www.site.testlisting"
UrlKinds == {"url", "url_at", "url_bare"}

\* Python truthiness of a URL value (None and '' are falsy)
Truthy(u) == u.k \in UrlKinds /\ ~(u.h = "" /\ u.p = 0)

(***************************************************************************)
(* Python dicts (insertion ordered) as sequences of <<key, value>>         *)
(***************************************************************************)
Keys(d) == [j \in 1..Len(d) |-> d[j][1]]
KeySet(d) == {d[j][1] : j \in 1..Len(d)}
HasKey(d, key) == key \in KeySet(d)
Get(d, key) == d[CHOOSE j \in 1..Len(d) : d[j][1] = key][2]
Put(d, key, v) ==
  IF HasKey(d, key)
    THEN [j \in 1..Len(d) |-> IF d[j][1] = key THEN <<key, v>> ELSE d[j]]
    ELSE Append(d, <<key, v>>)

RECURSIVE Merge(_, _)
\* {**a, **b}
Merge(a, b) == IF b = <<>> THEN a ELSE Merge(Put(a, b[1][1], b[1][2]), Tail(b))

SeqToSet(s) == {s[j] : j \in 1..Len(s)}
RECURSIVE SelectNotIn(_, _)
\* [x for x in s if x not in S]
SelectNotIn(s, S) ==
  IF s = <<>> THEN <<>>
  ELSE IF s[1] \in S THEN SelectNotIn(Tail(s), S)
       ELSE <<s[1]>> \o SelectNotIn(Tail(s), S)

IsPrefix(s, t) == Len(s) <= Len(t) /\ \A j \in 1..Len(s) : s[j] = t[j]

(***************************************************************************)
(* pandas DataFrame: ordered columns and rows; a row keeps the dict it was *)
(* built from (d) and a note g about the listing it stands for.            *)
(***************************************************************************)
RECURSIVE UnionColumns(_, _)
\* columns of pd.DataFrame(list_of_dicts): keys in order of first appearance
UnionColumns(rows, acc) ==
  IF rows = <<>> THEN acc
  ELSE UnionColumns(Tail(rows), acc \o SelectNotIn(Keys(rows[1].d), SeqToSet(acc)))

DataFrame(rows) == [columns |-> UnionColumns(rows, <<>>), rows |-> rows]

\* value of a row in a column (absent -> NaN)
Cell(row, col) == IF HasKey(row.d, col) THEN Get(row.d, col) ELSE NaN

\* (variant) a reindex that keeps the frame's own columns
ReindexKeep(df, cols) == [columns |-> df.columns, rows |-> df.rows]
\* data.reindex(columns=cols): exactly cols, in that order
Reindex(df, cols) == [columns |-> cols, rows |-> df.rows]

\* (variant) an assignment that leaves a column the frame already has
SetColumnIfAbsent(df, name, v) ==
  IF name \in SeqToSet(df.columns) THEN df
  ELSE [columns |-> Append(df.columns, name),
        rows |-> [j \in 1..Len(df.rows) |->
                    [df.rows[j] EXCEPT !.d = Put(df.rows[j].d, name, v)]]]
\* data[name] = value
SetColumn(df, name, v) ==
  [columns |-> IF name \in SeqToSet(df.columns) THEN df.columns
               ELSE Append(df.columns, name),
   rows |-> [j \in 1..Len(df.rows) |->
               [df.rows[j] EXCEPT !.d = Put(df.rows[j].d, name, v)]]]

NoNote == [id |-> <<0, 0>>, cand |-> None, exhausted |-> FALSE]
\* a line of the file: the columns it was written under, its values, and (for
\* reference) the dict d and the note g of the row it was written from
HeaderLine(cols) ==
  [kind |-> "header", cols |-> cols, vals |-> <<>>, d |-> <<>>, g |-> NoNote]
RowLine(cols, row) ==
  [kind |-> "row", cols |-> cols,
   vals |-> [j \in 1..Len(cols) |-> Cell(row, cols[j])],
   d |-> row.d, g |-> row.g]

\* the lines data.to_csv(index=False, header=header) produces
CsvLines(df, header) ==
  (IF header THEN <<HeaderLine(df.columns)>> ELSE <<>>)
  \o [j \in 1..Len(df.rows) |-> RowLine(df.columns, df.rows[j])]

\* (variant) a write that puts the new lines before the old ones
ToCsvPrepend(exists, lines, df, header, mode) ==
  IF mode = "a" /\ exists THEN CsvLines(df, header) \o lines
  ELSE CsvLines(df, header)
\* content of the destination after to_csv(path, mode=mode)
ToCsv(exists, lines, df, header, mode) ==
  IF mode = "a" /\ exists THEN lines \o CsvLines(df, header)
  ELSE CsvLines(df, header)

(***************************************************************************)
(* State                                                                   *)
(***************************************************************************)
VARIABLES
  engine,               \* "PLP" or "PPL": which class is running
  entry,                \* "pull_listings" or "pull_listing_categories"
  mode,                 \* PPL: the mode argument, "a" or "w"
  page_start, page_end, \* arguments; page_end = 0 stands for None
  get_listing_previews, get_listing_pages,
  pc,                   \* position of the call
  page_number,
  resp,                 \* response of the listing-page GET and its listings
  i,                    \* index of the listing being processed (1-based)
  listing_data,         \* dict of the listing being processed
  note,                 \* what the environment answered for that listing
  data,                 \* rows collected for the page
  single_listing_url,   \* local; Unbound until first assigned in a call
  single_listing_info,  \* local; [bound, d]
  attempt,              \* detail attempt number (0 outside the retry loop)
  file_exists, file_lines,  \* destination file
  log,                  \* log.txt: the URL named by each entry
  cats, category,       \* pull_listing_categories: remaining / current
  prompted,             \* a confirmation prompt was issued in this run
  run,                  \* "first" call on the destination or "resumed"
  anomalies,            \* non-nominal environment answers so far
  endReason,            \* why the current crawl left its loop
  writes,               \* history: page writes of this run
  fetched,              \* history: listing pages requested in this run
  restartFile,          \* history: file content when this run began
  resumed               \* history: this run continues the previous one

cfg == <<engine, entry, mode, page_start, page_end,
         get_listing_previews, get_listing_pages>>
locals == <<listing_data, note, data, single_listing_url,
            single_listing_info, attempt>>
file == <<file_exists, file_lines>>
hist == <<writes, fetched, restartFile, resumed>>
vars == <<cfg, pc, page_number, resp, i, locals, file, log, cats, category,
          prompted, run, anomalies, endReason, hist>>

NoResp == [kind |-> "none", n |-> 0, hist |-> 0]
NoInfo == [bound |-> FALSE, d |-> <<>>]

\* arguments of a direct call of pull_listings
Configs ==
  {c \in [engine : {"PLP", "PPL"}, entry : {"pull_listings"},
          mode : {"a", "w"}, previews : BOOLEAN, pages : BOOLEAN] :
     \/ c.engine = "PLP" /\ c.mode = "a"
     \/ c.engine = "PPL" /\ ~c.previews /\ c.pages}

\* pull_listing_categories calls pull_listings with mode='a'
CategoryConfigs ==
  {[engine |-> "PPL", entry |-> "pull_listing_categories", mode |-> "a",
    previews |-> FALSE, pages |-> TRUE]}

\* the state in which a call with arguments from C begins; Notes, Requested
\* and Existing are the values of the url argument (convert_relative_url),
\* of the categories argument and of the destination's content
InitFrom(C, Notes, Requested, Existing) ==
  /\ \E c \in C :
       /\ engine = c.engine /\ entry = c.entry /\ mode = c.mode
       /\ get_listing_previews = c.previews /\ get_listing_pages = c.pages
  /\ page_start \in 1..MaxPage
  /\ page_end \in 0..MaxPage
  /\ pc = "start"
  /\ page_number = 0
  /\ resp = NoResp
  /\ i = 0
  /\ listing_data = <<>>
  /\ note \in Notes
  /\ data = <<>>
  /\ single_listing_url = Unbound
  /\ single_listing_info = NoInfo
  /\ attempt = 0
  /\ file_lines \in Existing
  /\ file_exists = (file_lines # <<>>)
  /\ log = <<>>
  /\ cats \in Requested
  /\ category = ""
  /\ prompted = FALSE
  /\ run = "first"
  /\ anomalies = 0
  /\ endReason = "none"
  /\ writes = <<>>
  /\ fetched = <<>>
  /\ restartFile = <<>>
  /\ resumed = FALSE

InitWith(C) == InitFrom(C, {NoNote}, {<<>>}, {<<>>})

Init == InitWith(Configs)
InitCategories == InitFrom(CategoryConfigs, {NoNote}, {categories}, {<<>>})

(***************************************************************************)
(* Environment: what the site and the adapter's extractors can answer      *)
(***************************************************************************)
\* response of the listing-page GET: kind "ok" (n listings located, hist =
\* status of history[0], 0 when there was no redirect), "unlocatable"
\* (locator raises AttributeError), "chunked" (ChunkedEncodingError),
\* "connerr" (another requests exception)
\* A located page holds no listing, one listing or MaxListings listings.
Responses(p) ==
  IF p > MaxPage THEN {[kind |-> "ok", n |-> 0, hist |-> 0]}
  ELSE [kind : {"ok"}, n : {0, 1, MaxListings}, hist : {0, 301, 302, 307}]
       \cup [kind : {"unlocatable", "chunked", "connerr"}, n : {0}, hist : {0}]
\* the site paginates in full pages: a page with fewer than MaxListings
\* listings is the last one that holds any, the page after it holds none
ResponsesAfter(prev, p) ==
  IF prev.kind = "ok" /\ prev.n < MaxListings
    THEN {r \in Responses(p) : r.n = 0}
    ELSE Responses(p)
RespCost(r) == IF r.kind = "ok" /\ r.hist = 0 THEN 0 ELSE 1

\* outcome of get_listing_preview_data
PreviewOutcomes == {"ok", "NotImplementedError", "error"}
PreviewCost(po) == IF po = "ok" THEN 0 ELSE 1
PreviewFields(p, j) == <<<<"title", PreviewVal(p, j)>>>>

\* outcome of get_listing_url: a candidate (raise = "") or an exception
\* candidate URL strings of the listing j of page p
Candidates(p, j) ==
  {RelUrl(p, j), AbsUrl(root_host, p, j), AbsUrl(root_host_upper, p, j),
   AbsUrl(other_host, p, j), AtUrl(p, j), BareUrl(p, j), None, EmptyStr}
\* one candidate for each way pull_listings goes on after the resolver: a
\* URL on the root's host, ValueError, a URL on another host, no URL
CrawlCandidates(p, j) ==
  {RelUrl(p, j), AbsUrl(other_host, p, j), AtUrl(p, j), None}
UrlOutcomes(p, j) ==
  [raise : {""}, u : CrawlCandidates(p, j)]
  \cup [raise : {"TypeError", "ValueError", "KeyError"}, u : {None}]
UrlCost(uo) == IF uo.raise = "" /\ uo.u = RelUrl(uo.u.p, uo.u.i) /\ Truthy(uo.u)
               THEN 0 ELSE 1

\* outcome of one detail GET + get_listing_details
DetailOutcomes == {"ok", "ok_extra", "get_fails", "extract_fails"}
DetailFields(o, p, j) ==
  IF o = "ok" THEN <<<<"price", DetailVal(p, j)>>>>
  ELSE <<<<"price", DetailVal(p, j)>>, <<ExtraField, DetailVal(p, j)>>>>

(***************************************************************************)
(* convert_relative_url                                                    *)
(***************************************************************************)
\* str.lower() on the host names of the model
Lower(h) == IF h = root_host_upper THEN root_host ELSE h

\* urlparse(url).hostname: None when the URL has no host component, else the
\* host in lower case
Hostname(u) == IF u.h = "" THEN None ELSE Val("host", Lower(u.h), 0, 0)

\* f'{self.root_url}{url}': the string that results is an absolute URL whose
\* host is what stands between '//' (or a later '@') and the next '/'
RootConcat(u) ==
  [u EXCEPT !.h = IF u.k = "url_at" THEN other_host
                  ELSE IF u.k = "url_bare" THEN joined_host
                  ELSE root_host]

\* (variant) the resolver without the comparison of hosts
convert_relative_url_unchecked(u) ==
  IF ~Truthy(u) THEN [raise |-> FALSE, u |-> None]
  ELSE IF Hostname(u) = None
         THEN [raise |-> FALSE, u |-> RootConcat(u)]
         ELSE [raise |-> FALSE, u |-> u]
\* returns [raise |-> TRUE] for ValueError, else the returned value
convert_relative_url(u) ==
  IF ~Truthy(u) THEN [raise |-> FALSE, u |-> None]
  ELSE IF Hostname(u) = None
         THEN [raise |-> FALSE, u |-> RootConcat(u)]
         ELSE IF Hostname(u) = Val("host", root_host, 0, 0)
                THEN [raise |-> FALSE, u |-> u]
                ELSE [raise |-> TRUE, u |-> None]

\* arguments of a direct call of convert_relative_url of either class
ConvertConfigs ==
  {[engine |-> e, entry |-> "convert_relative_url", mode |-> "a",
    previews |-> FALSE, pages |-> TRUE] : e \in {"PLP", "PPL"}}
\* note.cand holds the url argument
InitConvert ==
  InitFrom(ConvertConfigs,
           UNION {{[id |-> <<p, j>>, cand |-> u, exhausted |-> FALSE] :
                     u \in Candidates(p, j)} :
                    p \in 1..MaxPage, j \in 1..MaxListings},
           {<<>>}, {<<>>})

\* the call: single_listing_url receives the returned value, or ValueError
\* leaves the call
ConvertCall ==
  /\ pc = "start"
  /\ entry = "convert_relative_url"
  /\ LET r == convert_relative_url(note.cand) IN
       IF r.raise
         THEN /\ pc' = "aborted" /\ endReason' = "ValueError"
              /\ single_listing_url' = single_listing_url
         ELSE /\ pc' = "done" /\ endReason' = endReason
              /\ single_listing_url' = r.u
  /\ UNCHANGED <<cfg, log, page_number, resp, i, listing_data, note, data,
                 single_listing_info, attempt, file, cats, category, prompted,
                 run, anomalies, hist>>

\* one call of convert_relative_url
SpecConvert == InitConvert /\ [][ConvertCall]_vars

(***************************************************************************)
(* Entry: the code before the page loop                                    *)
(***************************************************************************)
ResetLocals ==
  /\ listing_data' = <<>>
  /\ note' = NoNote
  /\ data' = <<>>
  /\ single_listing_url' = Unbound
  /\ single_listing_info' = NoInfo
  /\ attempt' = 0

\* (variant) a crawl that always begins at page 1
StartAtOne ==
  /\ pc = "start"
  /\ entry = "pull_listings"
  /\ page_number' = 1
  /\ pc' = "fetch"
  /\ prompted' = (engine = "PPL" /\ file_exists)
  /\ UNCHANGED <<cfg, log, resp, i, locals, file, cats, category, run, anomalies,
                 endReason, hist>>
\* pull_listings up to the page loop (PPL lines 99-108, PLP line 69)
Start ==
  /\ pc = "start"
  /\ entry = "pull_listings"
  /\ page_number' = page_start
  /\ pc' = "fetch"
  /\ prompted' = (engine = "PPL" /\ file_exists)
  /\ UNCHANGED <<cfg, log, resp, i, locals, file, cats, category, run, anomalies,
                 endReason, hist>>

\* pull_listing_categories up to the first call of pull_listings
StartCategories ==
  /\ pc = "start"
  /\ entry = "pull_listing_categories"
  \* lines 53-55: prompt and os.remove when the destination exists
  /\ prompted' = file_exists
  /\ file_exists' = FALSE
  /\ file_lines' = <<>>
  \* lines 58-61: look the requested labels up
  /\ IF \E k \in 1..Len(cats) : cats[k] \notin listing_categories
       THEN /\ pc' = "aborted"
            /\ endReason' = "KeyError"
            /\ UNCHANGED <<cats, category, page_number>>
       ELSE /\ category' = Head(cats)
            /\ cats' = Tail(cats)
            /\ page_number' = page_start
            /\ pc' = "fetch"
            /\ endReason' = endReason
  /\ UNCHANGED <<cfg, log, resp, i, locals, run, anomalies, hist>>

(***************************************************************************)
(* Listing page: GET, locate the listings, decide whether the loop ends    *)
(***************************************************************************)
\* (variant) the checks without the empty-collection test
BreakReasonNoEmpty(e, r, p) ==
  IF r.kind = "unlocatable" THEN "unlocatable"
  ELSE IF e = "PLP" /\ r.hist # 0 /\ p # 1 /\ r.hist \in {301, 302} THEN "redirect"
  ELSE IF e = "PPL" /\ r.hist # 0 /\ r.hist = 301 THEN "redirect"
  ELSE "none"
\* why the page loop is left after the listings were requested ("none": go on)
BreakReason(e, r, p) ==
  IF r.kind = "unlocatable" THEN "unlocatable"
  ELSE IF r.n = 0 THEN "empty"
  ELSE IF e = "PLP" /\ r.hist # 0 /\ p # 1 /\ r.hist \in {301, 302} THEN "redirect"
  ELSE IF e = "PPL" /\ r.hist # 0 /\ r.hist = 301 THEN "redirect"
  ELSE "none"

FetchListingPage ==
  /\ pc = "fetch"
  /\ \E r \in ResponsesAfter(resp, page_number) :
       /\ anomalies + RespCost(r) <= MaxAnomalies
       /\ anomalies' = anomalies + RespCost(r)
       /\ resp' = r
       /\ fetched' = Append(fetched, page_number)
       /\ data' = <<>>
       /\ IF r.kind = "chunked"
            THEN pc' = "returned" /\ endReason' = "chunked" /\ i' = i
          ELSE IF r.kind = "connerr"
            THEN pc' = "aborted" /\ endReason' = "ConnectionError" /\ i' = i
          ELSE IF BreakReason(engine, r, page_number) # "none"
            THEN /\ pc' = "returned"
                 /\ endReason' = BreakReason(engine, r, page_number)
                 /\ i' = i
          ELSE /\ pc' = IF r.n = 0 THEN "write" ELSE "listing"
               /\ i' = 1
               /\ endReason' = endReason
  /\ UNCHANGED <<cfg, log, page_number, listing_data, note, single_listing_url,
                 single_listing_info, attempt, file, cats, category, prompted,
                 run, writes, restartFile, resumed>>

\* (variant) the caller stops after the first category
ReturnAnyCats ==
  /\ pc = "returned"
  /\ pc' = "done"
  /\ UNCHANGED <<cfg, log, page_number, resp, i, locals, file, cats, category,
                 prompted, run, anomalies, endReason, hist>>
\* pull_listings returns to its caller
Return ==
  /\ pc = "returned"
  /\ cats = <<>>
  /\ pc' = "done"
  /\ UNCHANGED <<cfg, log, page_number, resp, i, locals, file, cats, category,
                 prompted, run, anomalies, endReason, hist>>

\* pull_listing_categories calls pull_listings for the next category
NextCategory ==
  /\ pc = "returned"
  /\ cats # <<>>
  /\ category' = Head(cats)
  /\ cats' = Tail(cats)
  /\ page_number' = page_start
  /\ pc' = "fetch"
  /\ endReason' = "none"
  /\ resp' = NoResp
  /\ i' = 0
  /\ ResetLocals
  /\ UNCHANGED <<cfg, log, file, prompted, run, anomalies, hist>>

(***************************************************************************)
(* Per-listing steps                                                       *)
(***************************************************************************)
\* end of one iteration of the for loop over the listings
NextListing ==
  IF i < resp.n THEN pc' = "listing" /\ i' = i + 1
  ELSE pc' = "write" /\ i' = i

Row(d, g) == [d |-> d, g |-> g]

\* PropertyListingsPuller: preview, Page, URL, and the decision to request
\* the single listing page (lines 93-113; line 132 when nothing is requested)
PLP_Listing ==
  /\ engine = "PLP" /\ pc = "listing"
  /\ \E po \in PreviewOutcomes, uo \in UrlOutcomes(page_number, i) :
       LET cost == (IF get_listing_previews THEN PreviewCost(po) ELSE 0) + UrlCost(uo)
           ld1 == IF get_listing_previews
                    THEN Merge(<<>>, PreviewFields(page_number, i)) ELSE <<>>
           ld2 == Put(ld1, "Page", PageVal(page_number))
           conv == convert_relative_url(uo.u)
           url1 == IF uo.raise # "" THEN single_listing_url
                   ELSE IF conv.raise THEN uo.u ELSE conv.u
           ld3 == IF uo.raise # "" \/ conv.raise THEN ld2 ELSE Put(ld2, "URL", conv.u)
           g == [id |-> <<page_number, i>>,
                 cand |-> IF uo.raise # "" THEN Val("raised", "", 0, 0) ELSE uo.u,
                 exhausted |-> FALSE]
       IN
       /\ get_listing_previews \/ po = "ok"
       /\ anomalies + cost <= MaxAnomalies
       /\ anomalies' = anomalies + cost
       /\ IF get_listing_previews /\ po = "NotImplementedError"
            THEN \* continue
                 /\ NextListing
                 /\ listing_data' = <<>>
                 /\ note' = NoNote
                 /\ UNCHANGED <<data, single_listing_url, attempt, endReason>>
          ELSE IF get_listing_previews /\ po = "error"
            THEN \* any other exception of the preview extractor propagates
                 /\ pc' = "aborted" /\ endReason' = "preview error"
                 /\ listing_data' = <<>>
                 /\ note' = NoNote
                 /\ UNCHANGED <<i, data, single_listing_url, attempt>>
          ELSE /\ single_listing_url' = url1
               /\ listing_data' = ld3
               /\ note' = g
               /\ IF get_listing_pages /\ url1 = Unbound
                    THEN /\ pc' = "aborted"
                         /\ endReason' = "UnboundLocalError single_listing_url"
                         /\ UNCHANGED <<i, data, attempt>>
                  ELSE IF get_listing_pages /\ Truthy(url1)
                    THEN /\ pc' = "detail" /\ attempt' = 1
                         /\ UNCHANGED <<i, data, endReason>>
                  ELSE /\ data' = Append(data, Row(ld3, g))
                       /\ NextListing
                       /\ UNCHANGED <<attempt, endReason>>
  /\ UNCHANGED <<cfg, log, page_number, resp, single_listing_info, file, cats,
                 category, prompted, run, hist>>

\* PropertyListingsPuller: one attempt of the retry loop (lines 116-128) and,
\* when the loop is left, the merge and the append (lines 129-132)
PLP_DetailAttempt ==
  /\ engine = "PLP" /\ pc = "detail"
  /\ \E o \in DetailOutcomes :
       LET fails == o \in {"get_fails", "extract_fails"}
           cost == IF fails THEN (IF attempt = 1 THEN 1 ELSE 0)
                   ELSE IF o = "ok_extra" THEN 1 ELSE 0
           \* the fields are those of the page that was requested
           fields == DetailFields(o, single_listing_url.p, single_listing_url.i)
       IN
       /\ anomalies + cost <= MaxAnomalies
       /\ anomalies' = anomalies + cost
       /\ fails \/ attempt <= MaxTransient + 1
       /\ log' = IF fails THEN Append(log, single_listing_url) ELSE log
       /\ IF ~fails
            THEN /\ single_listing_info' = [bound |-> TRUE, d |-> fields]
                 /\ listing_data' = Merge(listing_data, fields)
                 /\ data' = Append(data, Row(Merge(listing_data, fields), note))
                 /\ NextListing
                 /\ attempt' = 0
                 /\ UNCHANGED <<note, endReason>>
          ELSE IF attempt < max_attempts
            THEN /\ attempt' = attempt + 1
                 /\ UNCHANGED <<pc, i, listing_data, note, data,
                                single_listing_info, endReason>>
          ELSE IF ~single_listing_info.bound
            THEN /\ pc' = "aborted"
                 /\ endReason' = "UnboundLocalError single_listing_info"
                 /\ UNCHANGED <<i, listing_data, note, data,
                                single_listing_info, attempt>>
          ELSE /\ listing_data' = Merge(listing_data, single_listing_info.d)
               /\ note' = [note EXCEPT !.exhausted = TRUE]
               /\ data' = Append(data, Row(Merge(listing_data, single_listing_info.d),
                                           [note EXCEPT !.exhausted = TRUE]))
               /\ NextListing
               /\ attempt' = 0
               /\ UNCHANGED <<single_listing_info, endReason>>
  /\ UNCHANGED <<cfg, page_number, resp, single_listing_url, file, cats,
                 category, prompted, run, hist>>

\* PullPropertyListings: the listing URL (lines 133-144)
PPL_Listing ==
  /\ engine = "PPL" /\ pc = "listing"
  /\ \E uo \in UrlOutcomes(page_number, i) :
       LET conv == convert_relative_url(uo.u)
           g == [id |-> <<page_number, i>>, cand |-> uo.u, exhausted |-> FALSE]
       IN
       /\ anomalies + UrlCost(uo) <= MaxAnomalies
       /\ anomalies' = anomalies + UrlCost(uo)
       /\ IF uo.raise \in {"TypeError", "KeyError"}
            THEN \* TypeError is raised again; other exceptions are not caught
                 /\ pc' = "aborted" /\ endReason' = uo.raise
                 /\ UNCHANGED <<i, note, single_listing_url, attempt>>
          ELSE IF uo.raise = "ValueError" \/ conv.raise \/ ~Truthy(conv.u)
            THEN \* continue
                 /\ NextListing
                 /\ single_listing_url' =
                      (IF uo.raise # "" THEN single_listing_url
                       ELSE IF conv.raise THEN uo.u ELSE conv.u)
                 /\ UNCHANGED <<note, attempt, endReason>>
          ELSE /\ single_listing_url' = conv.u
               /\ note' = g
               /\ pc' = "detail" /\ attempt' = 1
               /\ UNCHANGED <<i, endReason>>
  /\ UNCHANGED <<cfg, log, page_number, resp, listing_data, data,
                 single_listing_info, file, cats, category, prompted, run, hist>>

\* PullPropertyListings: the single GET and the extraction (lines 145-162)
PPL_Detail ==
  /\ engine = "PPL" /\ pc = "detail"
  /\ \E o \in DetailOutcomes :
       LET cost == IF o = "ok" THEN 0 ELSE 1
           info == Put(DetailFields(o, note.id[1], note.id[2]), "url", single_listing_url)
       IN
       /\ anomalies + cost <= MaxAnomalies
       /\ anomalies' = anomalies + cost
       /\ log' = IF o = "extract_fails" THEN Append(log, single_listing_url)
                 ELSE log
       /\ IF o = "get_fails"
            THEN \* requests.get is outside the try block
                 /\ pc' = "aborted" /\ endReason' = "detail GET error"
                 /\ UNCHANGED <<i, data, single_listing_info>>
          ELSE IF o = "extract_fails"
            THEN \* logged, continue
                 /\ NextListing
                 /\ UNCHANGED <<data, single_listing_info, endReason>>
          ELSE /\ single_listing_info' = [bound |-> TRUE, d |-> info]
               /\ data' = Append(data, Row(info, note))
               /\ NextListing
               /\ endReason' = endReason
  /\ attempt' = 0
  /\ UNCHANGED <<cfg, page_number, resp, listing_data, note,
                 single_listing_url, file, cats, category, prompted,
                 run, hist>>

(***************************************************************************)
(* Reconcile and persist one page, then advance                            *)
(***************************************************************************)
\* columns of every PropertyListingsPuller write
PLP_Columns == data_columns \o <<"Page", "URL">>
\* columns_order of the process_listing_data hook
columns_order == <<"title", "listing_page_category", "price", "url">>

\* (variant) every page is written like the first one
PLP_WriteArgsAlwaysW(pn, ps) == [header |-> TRUE, mode |-> "w"]
\* header and mode of the PropertyListingsPuller write
PLP_WriteArgs(pn, ps) ==
  IF pn = ps THEN [header |-> TRUE, mode |-> "w"]
  ELSE [header |-> FALSE, mode |-> "a"]

\* header and mode of the PullPropertyListings write
PPL_WriteArgs(m, exists) ==
  [header |-> IF m = "a" THEN ~exists ELSE TRUE, mode |-> m]

\* (variant) the end test as an equality
AtEndPageEq(pn, pe) == pe # 0 /\ pn = pe
\* page_end is not None and page_number >= page_end
AtEndPage(pn, pe) == pe # 0 /\ pn >= pe

\* the column check of the process_listing_data hook: missing columns are
\* added empty, an unexpected column raises RuntimeError, columns are ordered
ProcessListingData(df) ==
  LET cols1 == df.columns \o SelectNotIn(columns_order, SeqToSet(df.columns))
      missed_columns == SelectNotIn(cols1, SeqToSet(columns_order))
  IN [raise |-> missed_columns # <<>>,
      missed |-> missed_columns,
      df |-> [columns |-> columns_order, rows |-> df.rows]]

\* bookkeeping shared by both writes
Persist(df, args) ==
  /\ file_lines' = ToCsv(file_exists, file_lines, df, args.header, args.mode)
  /\ file_exists' = TRUE
  /\ writes' = Append(writes, [page |-> page_number, header |-> args.header,
                               mode |-> args.mode, cat |-> category,
                               rows |-> CsvLines(df, FALSE)])
  /\ IF AtEndPage(page_number, page_end)
       THEN pc' = "returned" /\ endReason' = "page_end" /\ page_number' = page_number
       ELSE pc' = "fetch" /\ endReason' = endReason /\ page_number' = page_number + 1

PLP_Write ==
  /\ engine = "PLP" /\ pc = "write"
  /\ Persist(Reindex(DataFrame(data), PLP_Columns),
             PLP_WriteArgs(page_number, page_start))
  /\ UNCHANGED <<cfg, log, resp, i, locals, cats, category, prompted, run,
                 anomalies, fetched, restartFile, resumed>>

PPL_Write ==
  /\ engine = "PPL" /\ pc = "write"
  /\ LET hook == ProcessListingData(DataFrame(data))
         df == IF entry = "pull_listing_categories"
                 THEN SetColumn(hook.df, "listing_page_category", CatVal(category))
                 ELSE hook.df
     IN IF hook.raise
          THEN /\ pc' = "aborted" /\ endReason' = "RuntimeError"
               /\ UNCHANGED <<page_number, file, writes>>
          ELSE Persist(df, PPL_WriteArgs(mode, file_exists))
  /\ UNCHANGED <<cfg, log, resp, i, locals, cats, category, prompted, run,
                 anomalies, fetched, restartFile, resumed>>

(***************************************************************************)
(* The operator: stop the process, start it again on the same destination  *)
(***************************************************************************)
Running == pc \in {"start", "fetch", "listing", "detail", "write", "returned"}

\* the process is stopped from outside
Kill ==
  /\ Running
  /\ run = "first"
  /\ pc' = "killed"
  /\ UNCHANGED <<cfg, log, page_number, resp, i, locals, file, cats, category,
                 prompted, run, anomalies, endReason, hist>>

\* the same call is made again on the same destination, continuing after the
\* last page the stopped run persisted
Restart ==
  /\ pc \in {"done", "aborted", "killed"}
  /\ run = "first"
  /\ run' = "resumed"
  /\ page_start' = IF writes = <<>> THEN page_start
                   ELSE writes[Len(writes)].page + 1
  /\ page_start' <= MaxPage
  /\ resumed' = (writes # <<>>)
  /\ restartFile' = file_lines
  /\ writes' = <<>>
  /\ fetched' = <<>>
  /\ pc' = "start"
  /\ page_number' = 0
  /\ resp' = NoResp
  /\ i' = 0
  /\ ResetLocals
  /\ cats' = <<>>
  /\ category' = ""
  /\ prompted' = FALSE
  /\ endReason' = "none"
  /\ UNCHANGED <<log, engine, entry, mode, page_end, get_listing_previews,
                 get_listing_pages, file, anomalies>>

Next ==
  \/ Start
  \/ FetchListingPage
  \/ PLP_Listing
  \/ PLP_DetailAttempt
  \/ PLP_Write
  \/ PPL_Listing
  \/ PPL_Detail
  \/ PPL_Write
  \/ Return

\* one direct call of pull_listings
Spec == Init /\ [][Next]_vars

NextResume ==
  \/ Next
  \/ Kill
  \/ Restart

\* a direct call that may be stopped and made again
SpecResume == Init /\ [][NextResume]_vars

NextCategories ==
  \/ StartCategories
  \/ FetchListingPage
  \/ PPL_Listing
  \/ PPL_Detail
  \/ PPL_Write
  \/ NextCategory
  \/ Return

\* one call of pull_listing_categories
SpecCategories == InitCategories /\ [][NextCategories]_vars

\* the destination as an earlier crawl left it: a header and one row
ExistingFile ==
  CsvLines(DataFrame(<<Row(<<<<"price", DetailVal(1, 1)>>,
                           <<"listing_page_category", CatVal("apartments")>>>>,
                         [id |-> <<1, 1>>, cand |-> RelUrl(1, 1),
                          exhausted |-> FALSE])>>), TRUE)
\* a call of pull_listing_categories while the destination exists, with the
\* configured labels or with a label that is not configured
InitCategoriesRerun ==
  InitFrom(CategoryConfigs, {NoNote}, {categories, UnknownRequest}, {ExistingFile})
SpecCategoriesRerun == InitCategoriesRerun /\ [][NextCategories]_vars

(***************************************************************************)
(* Properties                                                              *)
(***************************************************************************)
RowLines == {j \in 1..Len(file_lines) : file_lines[j].kind = "row"}
HeaderLines == {j \in 1..Len(file_lines) : file_lines[j].kind = "header"}
Max(a, b) == IF a >= b THEN a ELSE b

\* C1: every line PropertyListingsPuller.pull_listings writes is laid out as
\* data_columns + ['Page', 'URL'], in that order, on every page write; a
\* column the listing did not supply is empty, a supplied one keeps its value.
C1_RowsHaveCanonicalColumns ==
  engine = "PLP" =>
    \A j \in 1..Len(file_lines) :
      LET l == file_lines[j] IN
      /\ l.cols = <<"title", "price", "Page", "URL">>
      /\ l.kind = "row" =>
           /\ Len(l.vals) = 4
           /\ \A k \in 1..4 :
                l.vals[k] = IF HasKey(l.d, l.cols[k]) THEN Get(l.d, l.cols[k])
                            ELSE NaN

\* two pages written; one listing supplied an undeclared field and no title
C1_Witness ==
  /\ engine = "PLP"
  /\ Len(writes) = 2
  /\ \E j \in RowLines :
       /\ HasKey(file_lines[j].d, ExtraField)
       /\ ~HasKey(file_lines[j].d, "title")
       /\ file_lines[j].vals[1] = NaN

\* canonical columns and crawl metadata of the running engine
Declared ==
  IF engine = "PLP" THEN {"title", "price", "Page", "URL"}
  ELSE {"title", "listing_page_category", "price", "url"}

\* C2: a listing carrying a field outside the canonical column list aborts
\* the crawl before its page is written, so no line of the file stems from
\* such a listing.
C2_UnknownFieldAborts ==
  \A j \in RowLines : KeySet(file_lines[j].d) \subseteq Declared

\* C3: a listing whose extracted URL is on another host leaves no row in the
\* output.
C3_OffSiteListingExcluded ==
  \A j \in RowLines : file_lines[j].g.cand.h # other_host

\* C4: in PropertyListingsPuller.pull_listings a listing whose 20 detail
\* attempts all failed is recorded with its preview fields, Page and URL
\* only, and no exception escapes.
C4_ExhaustedListingKeepsPartialRecord ==
  engine = "PLP" =>
    /\ endReason # "UnboundLocalError single_listing_info"
    /\ \A j \in 1..Len(data) :
         data[j].g.exhausted =>
           \A k \in 1..Len(data[j].d) : data[j].d[k][2].k # "dt"
    /\ \A j \in RowLines :
         file_lines[j].g.exhausted =>
           \A k \in 1..Len(file_lines[j].vals) : file_lines[j].vals[k].k # "dt"

\* C5: when the listing locator yields no listings (empty collection or
\* AttributeError), the crawl of that slug ends without raising and the step
\* leaves the file as it was.
C5_EmptyPageEndsCrawl ==
  [][(/\ pc = "fetch"
      /\ fetched' # fetched
      /\ \/ resp'.kind = "unlocatable"
         \/ resp'.kind = "ok" /\ resp'.n = 0)
     => /\ pc' = "returned"
        /\ endReason' \in {"empty", "unlocatable"}
        /\ file_lines' = file_lines
        /\ file_exists' = file_exists
        /\ writes' = writes]_vars

\* the locator raised on a page after rows were persisted
C5_Witness ==
  /\ pc = "returned"
  /\ endReason = "unlocatable"
  /\ writes # <<>>
  /\ RowLines # {}

\* C6: the first page write to the destination emits the header, every
\* later page write of the run emits none, and the file holds exactly one
\* header, as its first line.
C6_OneHeaderFirstWrite ==
  writes # <<>> =>
    /\ \A j \in 1..Len(writes) : writes[j].header <=> (j = 1)
    /\ HeaderLines = {1}

\* C7: within one run a page write leaves every line written by an earlier
\* page write of the run in place.
C7_AppendOnly ==
  [][(writes # <<>> /\ writes' # writes) => IsPrefix(file_lines, file_lines')]_vars

\* C8: when PropertyListingsPuller.pull_listings is started again with
\* page_start = k+1 on the destination of a stopped run that persisted pages
\* up to k, the lines of the stopped run stay at the top of the file, under
\* a single header.
C8_ResumeKeepsEarlierPages ==
  (engine = "PLP" /\ run = "resumed" /\ resumed) =>
    /\ IsPrefix(restartFile, file_lines)
    /\ HeaderLines = {1}

RECURSIVE WrittenRows(_)
\* the rows of the page writes ws, in order
WrittenRows(ws) == IF ws = <<>> THEN <<>> ELSE ws[1].rows \o WrittenRows(Tail(ws))

\* C9: in PropertyListingsPuller.pull_listings the file always consists of
\* the complete batches of the pages page_start..page_number-1 (plus the
\* page just written, before the page number advances); when the fetch of
\* page p+1 starts, pages page_start..p are all in the file.
C9_PersistedPerPage ==
  engine = "PLP" =>
    /\ \A j \in 1..Len(writes) : writes[j].page = page_start + j - 1
    /\ file_exists <=> writes # <<>>
    /\ file_lines = IF writes = <<>> THEN <<>>
                    ELSE <<HeaderLine(<<"title", "price", "Page", "URL">>)>>
                         \o WrittenRows(writes)
    /\ pc \in {"fetch", "listing", "detail", "write"} =>
         Len(writes) = page_number - page_start

\* the fetch of page 3 starts with the rows of pages 1 and 2 in the file
C9_Witness ==
  /\ engine = "PLP"
  /\ pc = "fetch"
  /\ page_start = 1
  /\ page_number = 3
  /\ Len(writes[1].rows) > 0 /\ Len(writes[2].rows) > 0
  /\ Len(file_lines) = 1 + Len(writes[1].rows) + Len(writes[2].rows)

C11_FirstPageRedirectTolerated ==
  (Len(fetched) = 1 /\ resp.kind = "ok" /\ resp.n > 0 /\ resp.hist # 0) =>
    /\ endReason # "redirect"
    /\ pc # "returned"

\* C12: when a listing page after the first one of the crawl was reached
\* through a redirect (any redirect status), the crawl ends there and no row
\* of that page is written.
C12_LaterRedirectEndsCrawl ==
  (Len(fetched) > 1 /\ resp.kind = "ok" /\ resp.n > 0 /\ resp.hist # 0) =>
    /\ pc \in {"returned", "done"}
    /\ endReason = "redirect"
    /\ \A j \in 1..Len(writes) : writes[j].page # fetched[Len(fetched)]

\* the resolver as the contract words it, case by case on the candidate
ReferenceResolver(u) ==
  CASE u \in {None, EmptyStr} -> [raise |-> FALSE, u |-> None]
    [] u.k = "url" /\ u.p # 0 /\ u.h = "" ->
         [raise |-> FALSE, u |-> [u EXCEPT !.h = root_host]]
    [] u.k = "url_at" /\ u.h = "" ->
         [raise |-> FALSE, u |-> [u EXCEPT !.h = other_host]]
    [] u.k = "url_bare" /\ u.h = "" ->
         [raise |-> FALSE, u |-> [u EXCEPT !.h = joined_host]]
    [] u.k = "url" /\ u.h \in {root_host, root_host_upper} ->
         [raise |-> FALSE, u |-> u]
    [] OTHER -> [raise |-> TRUE, u |-> None]

\* C13: convert_relative_url agrees with the reference resolver on every
\* candidate: no URL and no error for an empty or absent candidate, root +
\* candidate for one without host, the candidate itself for one on the
\* root's host, ValueError for any other host.
C13_ConvertMatchesReference ==
  (entry = "convert_relative_url" /\ pc # "start") =>
    LET ref == ReferenceResolver(note.cand) IN
    IF ref.raise
      THEN pc = "aborted" /\ endReason = "ValueError"
      ELSE pc = "done" /\ endReason = "none" /\ single_listing_url = ref.u

\* a candidate that spells the root's host in upper case came back unchanged
C13_Witness ==
  /\ entry = "convert_relative_url"
  /\ pc = "done"
  /\ note.cand.h = root_host_upper
  /\ single_listing_url = note.cand

\* C14: a listing whose URL extractor returned an empty or absent URL is
\* skipped: no row of the file stems from it.
C14_EmptyUrlListingSkipped ==
  \A j \in RowLines : file_lines[j].g.cand \notin {None, EmptyStr}

\* C15: no failure of the preview extractor, of the detail GET or of the
\* detail extractor leaves pull_listings: the call never ends on an
\* exception that stems from one of them.
C15_ListingFailuresContained ==
  endReason \notin {"preview error", "detail GET error",
                    "UnboundLocalError single_listing_info"}

\* C16: with get_listing_previews=True every listing of a page is recorded
\* as a row of PropertyListingsPuller.pull_listings, also when the adapter's
\* preview extractor raises NotImplementedError.
C16_MissingPreviewKeepsListing ==
  (engine = "PLP" /\ get_listing_previews /\ pc = "write") => Len(data) = resp.n

\* C17: the content a destination held when a run began is never deleted,
\* truncated or overwritten unless a confirmation prompt was issued earlier
\* in that run.
C17_PromptBeforeOverwrite ==
  (run = "resumed" /\ restartFile # <<>> /\ ~IsPrefix(restartFile, file_lines))
    => prompted

\* C18: in pull_listing_categories every row written during the sub-crawl of
\* a category carries that category's label in its listing_page_category
\* column, in the page write and in the file.
C18_RowsCarryCategoryLabel ==
  entry = "pull_listing_categories" =>
    /\ \A j \in 1..Len(writes) :
         \A k \in 1..Len(writes[j].rows) :
           LET l == writes[j].rows[k] IN
           \E c \in 1..Len(l.cols) :
             /\ l.cols[c] = "listing_page_category"
             /\ l.vals[c] = CatVal(writes[j].cat)
             /\ \A c2 \in 1..Len(l.cols) :
                  l.vals[c2].k = "cat" => c2 = c
    /\ file_lines = IF writes = <<>> THEN <<>>
                    ELSE <<HeaderLine(columns_order)>> \o WrittenRows(writes)

\* the file holds rows of both categories
C18_Witness ==
  /\ entry = "pull_listing_categories"
  /\ \E j \in RowLines : file_lines[j].vals[2] = CatVal("apartments")
  /\ \E j \in RowLines : file_lines[j].vals[2] = CatVal("houses")

\* C19: pull_listing_categories crawls the categories one after another in
\* the requested order, each sub-crawl starts at page_start, and when the
\* crawl of a category has ended gracefully the next category is crawled.
C19_CategoriesInOrder ==
  /\ []((entry = "pull_listing_categories" /\ pc # "start") =>
          /\ \E k \in 1..Len(categories) :
               /\ category = categories[k]
               /\ cats = SubSeq(categories, k + 1, Len(categories))
          /\ (pc = "fetch" /\ resp = NoResp) => page_number = page_start
          /\ \A j \in 1..Len(writes) :
               IF j = 1 \/ writes[j - 1].cat # writes[j].cat
                 THEN writes[j].page = page_start
                 ELSE writes[j].page = writes[j - 1].page + 1
          /\ \A j, k \in 1..Len(writes) :
               (j < k /\ writes[j].cat = "houses") => writes[k].cat = "houses")
  /\ [][(pc = "returned" /\ cats # <<>>) =>
          /\ pc' = "fetch"
          /\ category' = Head(cats)
          /\ page_number' = page_start
          /\ file_lines' = file_lines]_vars

\* the second category is being crawled from page_start after the crawl of
\* the first one ended with pages written
C19_Witness ==
  /\ entry = "pull_listing_categories"
  /\ category = "houses"
  /\ Len(writes) >= 2
  /\ writes[1].cat = "apartments"
  /\ writes[Len(writes)].cat = "houses"
  /\ writes[Len(writes)].page = page_start

\* C20: pull_listings fetches the listing pages page_start, page_start + 1,
\* ... in that order, each once, and fetches a page only after every page
\* fetched before it has been processed and persisted.
C20_PagesInOrder ==
  entry = "pull_listings" =>
    /\ \A j \in 1..Len(fetched) : fetched[j] = page_start + j - 1
    /\ \A j \in 1..Len(writes) : writes[j].page = fetched[j]
    /\ Len(writes) \in {Len(fetched) - 1, Len(fetched)}
    /\ (pc = "fetch" \/ Len(fetched) = 0) => Len(writes) = Len(fetched)
    /\ pc \in {"listing", "detail", "write"} => Len(writes) = Len(fetched) - 1

\* pages 2 and 3 were fetched in turn, page 2 written before page 3 was
\* requested
C20_Witness ==
  /\ entry = "pull_listings"
  /\ page_start = 2
  /\ fetched = <<2, 3>>
  /\ Len(writes) = 1
  /\ writes[1].page = 2
  /\ Len(writes[1].rows) > 0

\* C21: the rows of the file are in site-reported order: rows of an earlier
\* page precede rows of a later page, and the rows of one page are in the
\* order in which the locator returned their listings; the Page column of a
\* PropertyListingsPuller row is the page its listing was on.
C21_RowsInSiteOrder ==
  /\ \A j, k \in RowLines :
       j < k =>
         \/ file_lines[j].g.id[1] < file_lines[k].g.id[1]
         \/ /\ file_lines[j].g.id[1] = file_lines[k].g.id[1]
            /\ file_lines[j].g.id[2] < file_lines[k].g.id[2]
  /\ engine = "PLP" =>
       \A j \in RowLines : file_lines[j].vals[3] = PageVal(file_lines[j].g.id[1])

\* the file holds the second listing of page 1 and, after it, a row of page 2,
\* while the first listing of page 1 left no row
C21_Witness ==
  /\ engine = "PLP"
  /\ \E j, k \in RowLines :
       /\ j < k
       /\ file_lines[j].g.id = <<1, 2>>
       /\ file_lines[k].g.id[1] = 2
  /\ \A j \in RowLines : file_lines[j].g.id # <<1, 1>>

\* C22: every non-empty URL convert_relative_url returns is on the host of
\* root_url, in a direct call and in pull_listings: the URL stored for a
\* listing (PropertyListingsPuller) and the URL about to be requested
\* (PullPropertyListings) have the root's host.
C22_ResolvedUrlOnRootHost ==
  /\ (entry = "convert_relative_url" /\ pc = "done"
        /\ Truthy(single_listing_url)) =>
       Lower(single_listing_url.h) = root_host
  /\ (HasKey(listing_data, "URL") /\ Truthy(Get(listing_data, "URL"))) =>
       Lower(Get(listing_data, "URL").h) = root_host
  /\ (engine = "PPL" /\ pc = "detail") => Lower(single_listing_url.h) = root_host

\* C23: the URL of a detail GET is on the root's host and is the value
\* convert_relative_url returned for the listing being processed.
C23_DetailGetOnRootHost ==
  pc = "detail" =>
    /\ Lower(single_listing_url.h) = root_host
    /\ <<single_listing_url.p, single_listing_url.i>> = note.id
    /\ note.cand.k \in UrlKinds
    /\ single_listing_url = ReferenceResolver(note.cand).u

\* a step of the retry loop of PropertyListingsPuller.pull_listings: either
\* the attempt succeeded, nothing is logged and the loop is left, or it
\* failed, one entry naming the requested URL is appended to the log, and
\* the next attempt follows unless this was attempt 20
RetryStep ==
  /\ attempt \in 1..20
  /\ \/ /\ log' = log
        /\ pc' \in {"listing", "write"}
        /\ single_listing_info'.bound
        /\ Len(data') = Len(data) + 1
     \/ /\ log' = Append(log, single_listing_url)
        /\ IF attempt < 20
             THEN pc' = "detail" /\ attempt' = attempt + 1 /\ data' = data
             ELSE pc' # "detail"

\* C24: for each listing PropertyListingsPuller.pull_listings makes at most
\* 20 detail attempts, none after a successful one, attempt k+1 only after
\* attempts 1..k failed, and every failed attempt appends exactly one entry
\* with the URL requested for the listing to the error log.
C24_BoundedRetryLogged ==
  [][(engine = "PLP" /\ pc = "detail") => RetryStep]_vars

\* all 20 attempts of a listing failed: the log holds 20 entries with its URL
C24_Witness ==
  /\ engine = "PLP"
  /\ pc # "detail"
  /\ Len(log) = 20
  /\ \A j \in 1..20 : log[j] = single_listing_url
  /\ <<single_listing_url.p, single_listing_url.i>> = note.id

\* C25: a transport failure of a listing-page GET (ChunkedEncodingError or
\* another failure such as a refused connection) ends the crawl like the end
\* of pagination: pull_listings returns without raising and the page is not
\* written.
C25_TransportFailureEndsCrawl ==
  resp.kind \in {"chunked", "connerr"} =>
    /\ pc \in {"returned", "done"}
    /\ endReason = "chunked"
    /\ \A j \in 1..Len(writes) : writes[j].page # fetched[Len(fetched)]

\* C26: when computing the URL of a listing raised an error other than the
\* off-site rejection, the call is aborted: the listing is not processed
\* further and nothing more is recorded or written.
C26_UrlErrorAborts ==
  note.cand.k = "raised" => pc = "aborted"

\* C27: in PropertyListingsPuller.pull_listings the detail fields and the URL
\* of a row stem from the listing the row stands for, never from another
\* listing.
C27_RowFromOwnListing ==
  engine = "PLP" =>
    \A j \in RowLines :
      \A k \in 1..Len(file_lines[j].vals) :
        LET v == file_lines[j].vals[k] IN
        (v.k = "dt" \/ v.k \in UrlKinds) => <<v.p, v.i>> = file_lines[j].g.id

\* C28: no page write has zero rows.
C28_NoEmptyPageWrite ==
  \A j \in 1..Len(writes) : Len(writes[j].rows) > 0

\* C29: with page_end unset, PropertyListingsPuller.pull_listings ends only at
\* a page that is empty, unlocatable, terminally redirected or unavailable,
\* and every page requested before that one has been written.
C29_EndsAtFirstTerminalPage ==
  (engine = "PLP" /\ page_end = 0 /\ pc \in {"returned", "aborted"}) =>
    /\ endReason \in {"empty", "unlocatable", "redirect", "chunked",
                      "ConnectionError"}
    /\ Len(writes) = Len(fetched) - 1
    /\ \A j \in 1..Len(writes) : writes[j].page = fetched[j]

\* C30: when pull_listing_categories fails because a requested category is
\* not configured, no page has been requested and the destination file that
\* existed before the call is still there with its content.
C30_UnknownCategoryLeavesFile ==
  (entry = "pull_listing_categories" /\ pc = "aborted" /\ category = "") =>
    /\ endReason = "KeyError"
    /\ fetched = <<>>
    /\ file_exists
    /\ file_lines = ExistingFile

====
